---- MODULE Spec2Model ----
(***************************************************************************)
(* A model of pyramid_couchauth_example/model.py: the password hashing     *)
(* helpers hashpw and hashcmp, the User / Group / Permission documents and *)
(* the CouchSession / init_model bootstrap.                                *)
(*                                                                         *)
(* Strings are sequences of character codes (ASCII where the code fixes    *)
(* the character).  Python's None is the one-element sequence <<-1>>,      *)
(* which is no string because character codes are never negative.  A call  *)
(* that may raise returns a record [exc, val]: exc = "none" and val the    *)
(* returned value, or exc the name of the exception raised.                *)
(***************************************************************************)
EXTENDS Integers, Sequences, FiniteSets, TLC

VARIABLES
    h_pw,       \* helpers on their own: the password handed to hashpw
    h_cand,     \* helpers on their own: the password handed to hashcmp
    h_stored,   \* helpers on their own: a stored hash handed to hashcmp
    h_rnd,      \* helpers on their own: what os.urandom yields in gensalt
    h_hash,     \* helpers on their own: what hashpw returned
    h_out,      \* helpers on their own: what hashcmp returned
    h_op,       \* helpers on their own: the calls that were made
    user,       \* the User document in memory (NoDoc before there is one)
    used,       \* the values os.urandom has yielded so far
    cur,        \* history: the plaintext user.password was last made from
    old,        \* history: the plaintext the last set_password replaced
    prevHash,   \* history: the hash the last set_password replaced
    a_cand,     \* the password of the last authenticate call
    a_out,      \* what the last authenticate call returned
    lastOp,     \* the last operation made
    Session,    \* the module's CouchSession object
    bound,      \* the database each document class is bound to (set_db)
    perm,       \* the Permission document in memory
    group,      \* the Group document in memory
    store,      \* the saved document of each class
    saveOut,    \* the document last handed to save and what save raised
    initSettings, \* history: the settings of the last completed init_model
    assigned    \* history: the lists given when group and user were made

hvars == <<h_pw, h_cand, h_stored, h_rnd, h_hash, h_out, h_op>>

urest == <<user, used, cur, old, prevHash, a_cand, a_out>>

uvars == <<urest, lastOp>>

svars == <<Session, bound, perm, group, store, saveOut, initSettings, assigned>>

vars == <<hvars, uvars, svars>>

-----------------------------------------------------------------------------
(* Bounds of the model.                                                    *)

\* Password bytes (bcrypt takes a C string: no NUL byte).
PwBytes == {1, 2}

\* Short passwords have at most MaxPwLen bytes; long ones are a 71-byte
\* padding followed by 1..MaxPwLen bytes, so they reach past bcrypt's key.
MaxPwLen == 2

\* os.urandom yields one of NumSeeds values, and is taken never to yield
\* the same value twice: NumSeeds also bounds the salts one run generates.
NumSeeds == 3

-----------------------------------------------------------------------------
(* Values.                                                                 *)

None == <<-1>>

Ret(v) == [exc |-> "none", val |-> v]

Raise(e, v) == [exc |-> e, val |-> v]

Min(a, b) == IF a < b THEN a ELSE b

\* Python's s[:n].
Slice(s, n) == SubSeq(s, 1, Min(n, Len(s)))

SeqsUpTo(S, n) == UNION {[1..k -> S] : k \in 0..n}

ShortPasswords == SeqsUpTo(PwBytes, MaxPwLen)

Pad == [i \in 1..71 |-> 1]

LongPasswords == {Pad \o t : t \in ShortPasswords \ {<<>>}}

Passwords == ShortPasswords \cup LongPasswords

Seeds == 0..(NumSeeds - 1)

-----------------------------------------------------------------------------
(* The bcrypt library as model.py uses it.                                 *)

\* The number of password bytes bcrypt's key schedule reads.
BcryptMaxKey == 72

\* hash[:29]: "$2a$" + two cost digits + "$" + 22 characters of salt.
SaltLen == 29

\* bcrypt's base64 alphabet "./A-Za-z0-9" as character codes.
B64Char(n) ==
    IF n = 0 THEN 46
    ELSE IF n = 1 THEN 47
    ELSE IF n < 28 THEN 65 + (n - 2)
    ELSE IF n < 54 THEN 97 + (n - 28)
    ELSE 48 + (n - 54)

IsB64(c) ==
    \/ c = 46 \/ c = 47
    \/ (48 <= c /\ c <= 57)
    \/ (65 <= c /\ c <= 90)
    \/ (97 <= c /\ c <= 122)

\* The inverse of B64Char.
B64Val(c) ==
    IF c = 46 THEN 0
    ELSE IF c = 47 THEN 1
    ELSE IF 65 <= c /\ c <= 90 THEN c - 63
    ELSE IF 97 <= c /\ c <= 122 THEN c - 69
    ELSE c + 6

\* "$2a$NN$"
SaltHeader(cost) == <<36, 50, 97, 36, 48 + (cost \div 10), 48 + (cost % 10), 36>>

\* The 16 random bytes as 22 base64 characters (the seed is small: only the
\* last two digits can be non-zero).
encode_base64(seed) ==
    [i \in 1..22 |->
        B64Char(IF i = 22 THEN seed % 64
                ELSE IF i = 21 THEN (seed \div 64) % 64
                ELSE 0)]

\* bcrypt.gensalt(): log_rounds defaults to 12.
gensalt(seed) == SaltHeader(12) \o encode_base64(seed)

IsDigit(c) == 48 <= c /\ c <= 57

SaltCost(s) == (s[5] - 48) * 10 + (s[6] - 48)

ValidSalt(s) ==
    /\ Len(s) >= SaltLen
    /\ SubSeq(s, 1, 4) = <<36, 50, 97, 36>>
    /\ IsDigit(s[5]) /\ IsDigit(s[6]) /\ s[7] = 36
    /\ 4 <= SaltCost(s) /\ SaltCost(s) <= 31
    /\ \A i \in 8..SaltLen : IsB64(s[i])

\* The bytes of the password that reach the key schedule.
BcryptKey(password) == Slice(password, BcryptMaxKey)

RECURSIVE SaltSum(_, _)
SaltSum(s, i) == IF i > SaltLen THEN 0 ELSE B64Val(s[i]) + SaltSum(s, i + 1)

\* The 31 characters of a digest: the length of the key and its last 29
\* bytes, each moved by m.
DigestChars(key, n, m) ==
    [i \in 1..31 |->
        B64Char(((IF i = 1 THEN n % 64
                  ELSE IF i = 2 THEN n \div 64
                  ELSE IF n - (31 - i) >= 1 THEN key[n - (31 - i)] ELSE 0)
                 + m) % 64)]

\* The 31 characters that follow the salt.  bcrypt is taken to be free of
\* collisions: two keys of the model give two digests under one salt, and
\* the salt and the cost move every character of the digest.
Digest(key, salt) ==
    DigestChars(key, Len(key), (SaltSum(salt, 8) + SaltCost(salt)) % 64)

\* bcrypt.hashpw(password, salt)
bcrypt_hashpw(password, salt) ==
    IF password = None \/ salt = None THEN Raise("TypeError", <<>>)
    ELSE IF ~ValidSalt(salt) THEN Raise("ValueError", <<>>)
    ELSE Ret(Slice(salt, SaltLen) \o Digest(BcryptKey(password), Slice(salt, SaltLen)))

\* unicode(s): the ASCII codec.
unicode(s) ==
    IF \A i \in 1..Len(s) : s[i] < 128 THEN Ret(s)
    ELSE Raise("UnicodeDecodeError", <<>>)

-----------------------------------------------------------------------------
(* hashpw and hashcmp.                                                     *)

\* A hashpw that generates a salt also when it is given one.
hashpw_drops_salt(password, salt, rnd) ==
    LET r == bcrypt_hashpw(password, gensalt(rnd))
    IN  IF r.exc # "none" THEN r ELSE unicode(r.val)

\* hashpw(password, salt=None); rnd is what os.urandom yields if the salt
\* is generated.
hashpw(password, salt, rnd) ==
    LET s == IF salt = None THEN gensalt(rnd) ELSE salt
        r == bcrypt_hashpw(password, s)
    IN  IF r.exc # "none" THEN r ELSE unicode(r.val)

\* A hashcmp that compares the salts only.
hashcmp_salt_only(hash, password) ==
    IF hash = None THEN Raise("TypeError", FALSE)
    ELSE LET salt == Slice(hash, SaltLen)
             r == hashpw(password, salt, 0)
         IN  IF r.exc # "none" THEN Raise(r.exc, FALSE)
             ELSE Ret(salt = Slice(r.val, SaltLen))

\* hashcmp(hash, password)
hashcmp(hash, password) ==
    IF hash = None THEN Raise("TypeError", FALSE)
    ELSE LET salt == Slice(hash, SaltLen)
             r == hashpw(password, salt, 0)
         IN  IF r.exc # "none" THEN Raise(r.exc, FALSE)
             ELSE Ret(hash = r.val)

-----------------------------------------------------------------------------
(* The hashing helpers applied to inputs drawn from bounded sets.          *)

\* Stored values hashcmp may be handed: unset, too short, not a bcrypt
\* string, a cut or damaged bcrypt string, and well-formed hashes.
StoredHashes ==
    {None, <<>>, <<97, 98, 99>>,
     [i \in 1..36 |-> 97 + (i % 20)],
     Slice(gensalt(0), 11),
     Slice(gensalt(0), 28),
     gensalt(1),
     SaltHeader(99) \o encode_base64(0),
     gensalt(0) \o <<97, 98, 99>>}
    \cup {hashpw(p, None, r).val : p \in {<<>>, <<1>>}, r \in Seeds}

WellFormed(h) ==
    /\ h # None
    /\ Len(h) = SaltLen + 31
    /\ ValidSalt(h)
    /\ \A i \in 1..Len(h) : i > 7 => IsB64(h[i])

NoOut == Raise("not called", FALSE)

NoHash == Raise("not called", <<>>)

NoDoc == [doc |-> "none"]

HashIdle ==
    /\ h_pw = <<>> /\ h_cand = <<>> /\ h_stored = None /\ h_rnd = 0
    /\ h_hash = NoHash /\ h_out = NoOut /\ h_op = "none"

Classes == {"User", "Group", "Permission"}

NoServer == [uri |-> "<unset>"]

NoDb == [server |-> NoServer, name |-> "<unset>"]

NoSettings == [k \in {} |-> ""]

StoreIdle ==
    /\ Session = [uri_key |-> "couch.uri", server |-> NoServer, auth |-> NoDb]
    /\ bound = [c \in Classes |-> NoDb]
    /\ perm = NoDoc /\ group = NoDoc
    /\ store = [c \in Classes |-> NoDoc]
    /\ saveOut = [doc |-> NoDoc, exc |-> "none"]
    /\ initSettings = NoSettings
    /\ assigned = [Group |-> <<>>, User |-> <<>>]

UserIdle ==
    /\ user = NoDoc /\ used = {} /\ cur = None /\ old = None
    /\ prevHash = None /\ a_cand = None /\ a_out = NoOut /\ lastOp = "none"

HashInit ==
    /\ h_pw \in Passwords
    /\ h_cand \in Passwords
    /\ h_stored \in StoredHashes
    /\ h_rnd \in Seeds
    /\ h_hash = NoHash
    /\ h_out = NoOut
    /\ h_op = "none"
    /\ UserIdle
    /\ StoreIdle

\* h = hashpw(p); hashcmp(h, p2)
HashThenCompare ==
    /\ h_op = "none"
    /\ h_hash' = hashpw(h_pw, None, h_rnd)
    /\ h_out' = IF h_hash'.exc = "none" THEN hashcmp(h_hash'.val, h_cand)
                ELSE Raise(h_hash'.exc, FALSE)
    /\ h_op' = "hashpw;hashcmp"
    /\ UNCHANGED <<h_pw, h_cand, h_stored, h_rnd, uvars, svars>>

\* hashcmp(stored, p2)
CompareStored ==
    /\ h_op = "none"
    /\ h_out' = hashcmp(h_stored, h_cand)
    /\ h_op' = "hashcmp"
    /\ UNCHANGED <<h_pw, h_cand, h_stored, h_rnd, h_hash, uvars, svars>>

HashNext == HashThenCompare \/ CompareStored

SpecHash == HashInit /\ [][HashNext]_vars

\* C1: for every password p, hashcmp(hashpw(p), p) returns True.
C1_HashVerifies ==
    (h_op = "hashpw;hashcmp" /\ h_cand = h_pw) => h_out = Ret(TRUE)

\* hashpw drew a salt other than the one hashcmp would draw itself, the
\* password is longer than bcrypt's key, and it verified.
C1_Witness ==
    /\ h_op = "hashpw;hashcmp" /\ h_cand = h_pw
    /\ h_rnd # 0 /\ Len(h_pw) > BcryptMaxKey
    /\ h_out = Ret(TRUE)

\* C2 as stated: for every p and every p2 # p, hashcmp(hashpw(p), p2)
\* returns False.
C2_OtherPasswordFails ==
    (h_op = "hashpw;hashcmp" /\ h_cand # h_pw) => h_out = Ret(FALSE)

\* C2 as amended: hashcmp(hashpw(p), p2) returns True when p and p2 agree
\* on their first 72 bytes and False when they do not.
C2_OtherKeyFails ==
    h_op = "hashpw;hashcmp" =>
        h_out = Ret(Slice(h_cand, 72) = Slice(h_pw, 72))

\* Two different passwords with different first 72 bytes, one of them
\* long, were compared and did not match.
C2_Witness ==
    /\ h_op = "hashpw;hashcmp" /\ h_cand # h_pw
    /\ Len(h_pw) > 72 /\ Slice(h_cand, 72) # Slice(h_pw, 72)
    /\ h_out = Ret(FALSE)

\* C4: hashcmp on a stored hash that is unset, shorter than the salt or
\* not in the bcrypt format returns False and does not raise.
C4_MalformedIsNonMatch ==
    (h_op = "hashcmp" /\ ~WellFormed(h_stored)) => h_out = Ret(FALSE)

-----------------------------------------------------------------------------
(* The User document.                                                      *)

\* User(username=..., password=..., groups=...): a property that is not
\* given is None, and the list of groups is empty.
User(username, password, groups) ==
    [doc |-> "User", username |-> username, password |-> password,
     groups |-> groups]

\* User.create(username, password, groups=[])
User_create(username, password, groups, rnd) ==
    LET hash == hashpw(password, None, rnd)
    IN  IF hash.exc # "none" THEN Raise(hash.exc, NoDoc)
        ELSE Ret(User(username, hash.val, groups))

\* User.authenticate(self, password)
User_authenticate(self, password) == hashcmp(self.password, password)

\* A set_password that keeps the salt of the hash it replaces.
User_set_password_keeps_salt(self, password, rnd) ==
    LET h == hashpw(password,
                    IF self.password = None THEN None
                    ELSE Slice(self.password, SaltLen), rnd)
    IN  IF h.exc # "none" THEN Raise(h.exc, self)
        ELSE Ret([self EXCEPT !.password = h.val])

\* A set_password that hashes and does not store.
User_set_password_drops(self, password, rnd) ==
    LET h == hashpw(password, None, rnd)
    IN  IF h.exc # "none" THEN Raise(h.exc, self) ELSE Ret(self)

\* A set_password that stores what it was given.
User_set_password_plain(self, password, rnd) ==
    Ret([self EXCEPT !.password = password])

\* User.set_password(self, password)
User_set_password(self, password, rnd) ==
    LET h == hashpw(password, None, rnd)
    IN  IF h.exc # "none" THEN Raise(h.exc, self)
        ELSE Ret([self EXCEPT !.password = h.val])

Alice == <<97, 108, 105, 99, 101>>

\* The passwords given to a user: of one byte, or one byte longer than
\* bcrypt's key, so that pairs with and without a common key occur.
UserPasswords ==
    {p \in Passwords : Len(p) = 1 \/ Len(p) = BcryptMaxKey + 1}

\* u = User.create(username, password, groups)
UserCreate(username, password, groups) ==
    /\ user = NoDoc
    /\ \E rnd \in Seeds \ used :
            LET r == User_create(username, password, groups, rnd)
            IN  /\ r.exc = "none"
                /\ user' = r.val
                /\ used' = used \cup {rnd}
                /\ cur' = password
                /\ old' = None
                /\ prevHash' = None
                /\ a_cand' = None
                /\ a_out' = NoOut
                /\ lastOp' = "create"

\* u = User(username=username)
UserNew(username) ==
    /\ user = NoDoc
    /\ user' = User(username, None, <<>>)
    /\ cur' = None
    /\ old' = None
    /\ prevHash' = None
    /\ a_cand' = None
    /\ a_out' = NoOut
    /\ lastOp' = "new"
    /\ UNCHANGED used

\* u.set_password(password)
SetPassword(password) ==
    /\ user # NoDoc
    /\ \E rnd \in Seeds \ used :
        LET r == User_set_password(user, password, rnd)
        IN  /\ r.exc = "none"
            /\ user' = r.val
            /\ used' = used \cup {rnd}
            /\ cur' = password
            /\ old' = cur
            /\ prevHash' = user.password
            /\ a_cand' = None
            /\ a_out' = NoOut
            /\ lastOp' = "set_password"

\* u.authenticate(password)
Authenticate(password) ==
    /\ user # NoDoc
    /\ a_cand' = password
    /\ a_out' = User_authenticate(user, password)
    /\ lastOp' = "authenticate"
    /\ UNCHANGED <<user, used, cur, old, prevHash>>

UserInit == HashIdle /\ UserIdle /\ StoreIdle

UserNext ==
    \/ \E p \in UserPasswords :
          UserCreate(Alice, p, <<>>) /\ UNCHANGED <<hvars, svars>>
    \/ UserNew(Alice) /\ UNCHANGED <<hvars, svars>>
    \/ \E p \in UserPasswords : SetPassword(p) /\ UNCHANGED <<hvars, svars>>
    \/ \E p \in UserPasswords : Authenticate(p) /\ UNCHANGED <<hvars, svars>>

SpecUser == UserInit /\ [][UserNext]_vars

\* C3 as stated: after set_password(new) on a user whose password was old,
\* new # old, authenticate(old) returns False and authenticate(new) True.
C3_OldFailsNewVerifies ==
    (lastOp = "authenticate" /\ old # None) =>
        /\ (a_cand = cur => a_out = Ret(TRUE))
        /\ (a_cand = old /\ old # cur => a_out = Ret(FALSE))

\* C3 as amended: after set_password(new) on a user whose password was old,
\* authenticate(new) returns True, and authenticate(old) returns False when
\* old and new differ within their first 72 bytes and True when they agree
\* on them.
C3_OldKeyFailsNewVerifies ==
    (lastOp = "authenticate" /\ old # None) =>
        /\ (a_cand = cur => a_out = Ret(TRUE))
        /\ (a_cand = old => a_out = Ret(Slice(old, 72) = Slice(cur, 72)))

\* The old password, longer than 72 bytes and differing from the new one
\* within them, was tried after set_password and was refused.
C3_Witness ==
    /\ lastOp = "authenticate" /\ old # None /\ a_cand = old
    /\ Len(old) > 72 /\ Slice(old, 72) # Slice(cur, 72)
    /\ a_out = Ret(FALSE)

\* C5: the password of a User, once set, is an output of the hash function
\* for the plaintext last supplied, and is not that plaintext.
C5_PasswordIsHash ==
    (user # NoDoc /\ user.password # None) =>
        /\ WellFormed(user.password)
        /\ user.password # cur
        /\ \E r \in Seeds : hashpw(cur, None, r) = Ret(user.password)

\* A user whose password was set by create and again by set_password has
\* been authenticated against.
C5_Witness ==
    /\ lastOp = "authenticate" /\ old # None /\ prevHash # None
    /\ WellFormed(user.password)

\* C6: set_password stores a hash whose salt is not the salt of the hash it
\* replaces, so two hashes of one password are two different strings, and
\* each of them verifies against its password.
C6_FreshSalt ==
    (lastOp = "set_password" /\ prevHash # None) =>
        /\ Slice(user.password, SaltLen) # Slice(prevHash, SaltLen)
        /\ user.password # prevHash
        /\ hashcmp(user.password, cur) = Ret(TRUE)
        /\ hashcmp(prevHash, old) = Ret(TRUE)

\* set_password was given the password the user already had.
C6_Witness ==
    /\ lastOp = "set_password" /\ prevHash # None /\ old = cur
    /\ user.password # prevHash

-----------------------------------------------------------------------------
(* CouchSession and init_model.  URIs and database names are TLA+ strings. *)

\* Server(uri); Server() connects to couchdbkit's default URI.
DefaultUri == "http://127.0.0.1:5984"

Server(uri) == [uri |-> uri]

\* server.get_or_create_db(db_name): the database of that name on that
\* server, or an error when the server cannot be reached.
get_or_create_db(server, db_name, reachable) ==
    IF reachable THEN Ret([server |-> server, name |-> db_name])
    ELSE Raise("RequestFailed", NoDb)

\* A configure that also forgets the database.
CouchSession_configure_resets(self, settings) ==
    [self EXCEPT !.server = IF self.uri_key \in DOMAIN settings
                            THEN Server(settings[self.uri_key])
                            ELSE Server(DefaultUri),
                 !.auth = NoDb]

\* CouchSession.configure(self, settings)
CouchSession_configure(self, settings) ==
    [self EXCEPT !.server = IF self.uri_key \in DOMAIN settings
                            THEN Server(settings[self.uri_key])
                            ELSE Server(DefaultUri)]

\* cls.set_db(db)
set_db(b, cls, db) == [b EXCEPT ![cls] = db]

\* An init_model that does not bind Permission.
init_model_two(session, b, settings, reachable) ==
    LET s1 == CouchSession_configure(session, settings)
        db_name == IF "whatcouch.db" \in DOMAIN settings
                   THEN settings["whatcouch.db"] ELSE "auth"
        db == get_or_create_db(s1.server, db_name, reachable)
    IN  IF db.exc # "none"
        THEN [exc |-> db.exc, session |-> s1, bound |-> b]
        ELSE [exc |-> "none",
              session |-> [s1 EXCEPT !.auth = db.val],
              bound |-> set_db(set_db(b, "User", db.val), "Group", db.val)]

\* init_model(settings): what it leaves in Session and in the classes, and
\* what it raised.
init_model(session, b, settings, reachable) ==
    LET s1 == CouchSession_configure(session, settings)
        db_name == IF "whatcouch.db" \in DOMAIN settings
                   THEN settings["whatcouch.db"] ELSE "auth"
        db == get_or_create_db(s1.server, db_name, reachable)
    IN  IF db.exc # "none"
        THEN [exc |-> db.exc, session |-> s1, bound |-> b]
        ELSE [exc |-> "none",
              session |-> [s1 EXCEPT !.auth = db.val],
              bound |-> set_db(set_db(set_db(b, "User", db.val),
                                      "Group", db.val),
                               "Permission", db.val)]

SettingKeys == {"couch.uri", "whatcouch.db"}

SettingValues(k) ==
    IF k = "couch.uri" THEN {"http://couch:5984"} ELSE {"users", "accounts"}

\* The WSGI settings dicts: each key absent or set.
SettingsDicts ==
    {s \in UNION {[K -> {"http://couch:5984", "users", "accounts"}] : K \in SUBSET SettingKeys} :
        \A k \in DOMAIN s : s[k] \in SettingValues(k)}

\* Session.configure(settings)
Configure(settings) ==
    /\ Session' = CouchSession_configure(Session, settings)
    /\ UNCHANGED <<bound, perm, group, store, saveOut, initSettings, assigned>>

\* init_model(settings)
InitModel(settings) ==
    \E reachable \in BOOLEAN :
        LET r == init_model(Session, bound, settings, reachable)
        IN  /\ Session' = r.session
            /\ bound' = r.bound
            /\ initSettings' = IF r.exc = "none" THEN settings ELSE initSettings
            /\ UNCHANGED <<perm, group, store, saveOut, assigned>>

-----------------------------------------------------------------------------
(* The documents and their persistence.                                    *)

\* Permission(name=...)
Permission(name) == [doc |-> "Permission", name |-> name]

\* Group(name=..., permissions=...)
Group(name, permissions) ==
    [doc |-> "Group", name |-> name, permissions |-> permissions]

\* StringProperty(required=True) of Permission.name, Group.name and
\* User.username.
NameOptional(cls) == FALSE

NameRequired(cls) == TRUE

NameOf(d) == IF d.doc = "User" THEN d.username ELSE d.name

Embedded(d) ==
    IF d.doc = "User" THEN d.groups
    ELSE IF d.doc = "Group" THEN d.permissions
    ELSE <<>>

\* A value a required property rejects: None or the empty string.
empty(value) == value = None \/ value = <<>>

\* The validation a save makes: a required name must not be empty; deep
\* says whether the embedded documents are validated as well, which
\* model.py leaves to the storage layer.
RECURSIVE Document_validate(_, _)
Document_validate(d, deep) ==
    /\ NameRequired(d.doc) => ~empty(NameOf(d))
    /\ deep => \A i \in 1..Len(Embedded(d)) : Document_validate(Embedded(d)[i], deep)

\* With the name of a saved Permission written into the copies of it that
\* the saved Group and User embed.
Cascade(st, d) ==
    LET g == IF st["Group"] = NoDoc \/ st["Group"].permissions = <<>>
             THEN st["Group"]
             ELSE [st["Group"] EXCEPT !.permissions = <<d>>]
        u == IF st["User"] = NoDoc \/ st["User"].groups = <<>>
                \/ st["User"].groups[1].permissions = <<>>
             THEN st["User"]
             ELSE [st["User"] EXCEPT !.groups[1].permissions = <<d>>]
    IN  [st EXCEPT !["Group"] = g, !["User"] = u]

\* A save that rewrites the embedded copies of the document saved.
Document_save_cascades(st, b, d, deep) ==
    IF b[d.doc] = NoDb THEN Raise("TypeError", st)
    ELSE IF ~Document_validate(d, deep) THEN Raise("BadValueError", st)
    ELSE Ret(IF d.doc = "Permission"
             THEN [Cascade(st, d) EXCEPT ![d.doc] = d]
             ELSE [st EXCEPT ![d.doc] = d])

\* doc.save(): the document is validated and then written to the database
\* its class is bound to.
Document_save(st, b, d, deep) ==
    IF b[d.doc] = NoDb THEN Raise("TypeError", st)
    ELSE IF ~Document_validate(d, deep) THEN Raise("BadValueError", st)
    ELSE Ret([st EXCEPT ![d.doc] = d])

Read == <<114, 101, 97, 100>>

Write == <<119, 114, 105, 116, 101>>

Admins == <<97, 100, 109, 105, 110, 115>>

InMemory(cls) ==
    IF cls = "User" THEN user ELSE IF cls = "Group" THEN group ELSE perm

\* p = Permission(name=name)
PermissionNew(name) ==
    /\ perm = NoDoc
    /\ perm' = Permission(name)
    /\ UNCHANGED <<Session, bound, group, store, saveOut, initSettings, assigned>>

\* g = Group(name=name, permissions=permissions)
GroupNew(name, permissions) ==
    /\ group = NoDoc
    /\ group' = Group(name, permissions)
    /\ assigned' = [assigned EXCEPT !.Group = permissions]
    /\ UNCHANGED <<Session, bound, perm, store, saveOut, initSettings>>

\* doc.save() on the document of class cls
Save(cls) ==
    /\ InMemory(cls) # NoDoc
    /\ \E deep \in BOOLEAN :
        LET r == Document_save(store, bound, InMemory(cls), deep)
        IN  /\ store' = r.val
            /\ saveOut' = [doc |-> InMemory(cls), exc |-> r.exc]
    /\ UNCHANGED <<Session, bound, perm, group, initSettings, assigned>>

\* d = cls.get(id); d.name = name; d.save(): the source record is renamed.
RenameRecord(cls, name) ==
    /\ store[cls] # NoDoc
    /\ \E deep \in BOOLEAN :
        LET d == [store[cls] EXCEPT !.name = name]
            r == Document_save(store, bound, d, deep)
        IN  /\ store' = r.val
            /\ saveOut' = [doc |-> d, exc |-> r.exc]
    /\ UNCHANGED <<Session, bound, perm, group, initSettings, assigned>>

Init == HashIdle /\ UserIdle /\ StoreIdle

ListOf(d) == IF d = NoDoc THEN {<<>>} ELSE {<<>>, <<d>>}

PermissionNames == {None, Read}

GroupNames == {None, Admins}

Usernames == {None, <<>>, Alice}

\* The application started with an empty settings dict, and documents
\* made, saved and renamed.
Next ==
    \/ InitModel(NoSettings) /\ UNCHANGED <<hvars, uvars>>
    \/ \E n \in PermissionNames : PermissionNew(n) /\ UNCHANGED <<hvars, uvars>>
    \/ \E n \in GroupNames, ps \in ListOf(perm) :
          GroupNew(n, ps) /\ UNCHANGED <<hvars, uvars>>
    \/ \E n \in Usernames, gs \in ListOf(group) :
          /\ UserCreate(n, <<1>>, gs)
          /\ assigned' = [assigned EXCEPT !.User = gs]
          /\ UNCHANGED <<hvars, Session, bound, perm, group, store, saveOut,
                         initSettings>>
    \/ \E cls \in Classes : Save(cls) /\ UNCHANGED <<hvars, uvars>>
    \/ \E cls \in {"Permission", "Group"}, n \in {None, Write} :
          RenameRecord(cls, n) /\ UNCHANGED <<hvars, uvars>>

Spec == Init /\ [][Next]_vars

\* The bootstrap called with every settings dict, any number of times, and
\* a Permission and a Group made and saved.
StoreNext ==
    \/ \E s \in SettingsDicts : Configure(s) /\ UNCHANGED <<hvars, uvars>>
    \/ \E s \in SettingsDicts : InitModel(s) /\ UNCHANGED <<hvars, uvars>>
    \/ \E n \in PermissionNames : PermissionNew(n) /\ UNCHANGED <<hvars, uvars>>
    \/ GroupNew(Admins, <<>>) /\ UNCHANGED <<hvars, uvars>>
    \/ \E cls \in {"Permission", "Group"} : Save(cls) /\ UNCHANGED <<hvars, uvars>>

SpecStore == Init /\ [][StoreNext]_vars

IsBound == \E c \in Classes : bound[c] # NoDb

\* Unconfigured, Configured, Bound
Stage == IF IsBound THEN 2 ELSE IF Session.server # NoServer THEN 1 ELSE 0

\* C7 as stated: once init_model has completed, no operation changes the
\* database the classes are bound to or replaces the server.
C7_NeverRebinds ==
    [][IsBound => (bound' = bound /\ Session' = Session)]_vars

\* C7 as amended: once init_model has completed the classes stay bound;
\* their database and Session.auth change only by a further init_model
\* that obtains its database, and then to the database its settings name;
\* the server is replaced only by configure or init_model; making and
\* saving documents changes none of them.
C7_RebindsOnlyByInitModel ==
    [][IsBound =>
        /\ IsBound'
        /\ (bound' # bound \/ Session'.auth # Session.auth) =>
              \E s \in SettingsDicts :
                  /\ bound' = init_model(Session, bound, s, TRUE).bound
                  /\ Session' = init_model(Session, bound, s, TRUE).session
        /\ Session'.server # Session.server =>
              \E s \in SettingsDicts :
                  Session'.server = CouchSession_configure(Session, s).server
        /\ (perm' # perm \/ group' # group \/ store' # store) =>
              (bound' = bound /\ Session' = Session)]_vars

\* The classes are bound, a later configure has replaced the server, and a
\* document has been saved.
C7_Witness ==
    /\ IsBound
    /\ Session.server # bound["User"].server
    /\ store["Permission"] # NoDoc

\* C8: the store never moves back a stage; whenever a class is bound the
\* server is configured and User, Group and Permission are bound to one
\* database, which is Session.auth, on the server the settings of that
\* init_model name, called by their 'whatcouch.db' when present and 'auth'
\* otherwise.
C8_Lifecycle ==
    /\ [](/\ IsBound =>
              /\ \A c \in Classes : bound[c] = Session.auth
              /\ Session.server # NoServer
              /\ Session.auth.name =
                    (IF "whatcouch.db" \in DOMAIN initSettings
                     THEN initSettings["whatcouch.db"] ELSE "auth")
              /\ Session.auth.server.uri =
                    (IF "couch.uri" \in DOMAIN initSettings
                     THEN initSettings["couch.uri"] ELSE DefaultUri)
          /\ ~IsBound => Session.auth = NoDb)
    /\ [][Stage' >= Stage]_vars

\* init_model has bound the three classes to the database and the server
\* its settings name.
C8_Witness ==
    /\ DOMAIN initSettings = SettingKeys
    /\ \A c \in Classes : bound[c] = [server |-> Server("http://couch:5984"),
                                      name |-> "users"]
    /\ Session.server = Server("http://couch:5984")

C10_RejectedAtSaveOnly ==
    /\ [](\A c \in Classes : store[c] # NoDoc => ~empty(NameOf(store[c])))
    /\ [](\A n \in Usernames, gs \in ListOf(group), r \in Seeds :
            /\ User_create(n, <<1>>, gs, r).exc = "none"
            /\ User_create(n, <<1>>, gs, r).val.username = n)
    /\ [][/\ user' # user => (store' = store /\ user' # NoDoc)
          /\ (saveOut' # saveOut \/ store' # store) =>
                /\ empty(NameOf(saveOut'.doc)) =>
                      (saveOut'.exc = "BadValueError" \/ saveOut'.exc = "TypeError")
                /\ saveOut'.exc # "none" => store' = store
                /\ (Document_validate(saveOut'.doc, TRUE) /\ IsBound) =>
                      /\ saveOut'.exc = "none"
                      /\ store'[saveOut'.doc.doc] = saveOut'.doc]_vars

\* A User made without a username was refused by save, with its class
\* bound, and nothing was written.
C10_Witness ==
    /\ IsBound /\ user # NoDoc /\ empty(user.username)
    /\ saveOut = [doc |-> user, exc |-> "BadValueError"]
    /\ store["User"] = NoDoc

====
